---- MODULE Spec2Model ----
(***************************************************************************)
(* TypeID (typeid-unboxed): the identifier grammar of src/typeid.ts.       *)
(*                                                                         *)
(* A JavaScript string is modelled as the sequence of its UTF-16 code      *)
(* units (naturals), a Uint8Array as a sequence of naturals in 0..255.     *)
(* A call either returns a value or throws; both outcomes are records      *)
(* (Return / Throw).  The base32 codec (base32.ts) and the hex UUID text    *)
(* conversion (parse_uuid.ts, package uuidv7) follow the specification,    *)
(* sections 3, 4.1 and 6.                                                  *)
(***************************************************************************)
EXTENDS Integers, Sequences, FiniteSets, TLC

VARIABLES call, pc, out, sub, subOut

vars == <<call, pc, out, sub, subOut>>

----------------------------------------------------------------------------
(* Characters                                                              *)

\* the characters the model writes, in blocks of consecutive code units
Digits == << "0", "1", "2", "3", "4", "5", "6", "7", "8", "9" >>
Upper == << "A", "B", "C", "D", "E", "F", "G", "H", "I", "J", "K", "L", "M",
            "N", "O", "P", "Q", "R", "S", "T", "U", "V", "W", "X", "Y", "Z" >>
Lower == << "a", "b", "c", "d", "e", "f", "g", "h", "i", "j", "k",
            "l", "m", "n", "o", "p", "q", "r", "s", "t", "u", "v", "w", "x",
            "y", "z" >>

IndexIn(t, ch) == CHOOSE i \in 1..Len(t) : t[i] = ch
Has(t, ch) == \E i \in 1..Len(t) : t[i] = ch

\* code unit of a character (String.prototype.charCodeAt)
Ord(ch) == IF ch = " " THEN 32
           ELSE IF ch = "-" THEN 45
           ELSE IF ch = "_" THEN 95
           ELSE IF Has(Digits, ch) THEN 47 + IndexIn(Digits, ch)
           ELSE IF Has(Upper, ch) THEN 64 + IndexIn(Upper, ch)
           ELSE 96 + IndexIn(Lower, ch)

\* the string whose characters are the one-character strings of t
Str(t) == [i \in 1..Len(t) |-> Ord(t[i])]

\* the string made of n copies of the character ch
Rep(ch, n) == [i \in 1..n |-> Ord(ch)]

Underscore == Ord("_")

\* outcomes of a call
Return(v) == [ok |-> TRUE, value |-> v]
Throw(kind, info) == [ok |-> FALSE, kind |-> kind, info |-> info]

----------------------------------------------------------------------------
(* Codec: 16 bytes <-> 26 characters (specification, section 4.1)          *)

SuffixLen == 26
MaxPrefixLen == 63
UUIDLen == 16

Alphabet ==
  Str(<< "0", "1", "2", "3", "4", "5", "6", "7", "8", "9", "a", "b", "c",
         "d", "e", "f", "g", "h", "j", "k", "m", "n", "p", "q", "r", "s",
         "t", "v", "w", "x", "y", "z" >>)

InAlphabet(c) == \E i \in 1..Len(Alphabet) : Alphabet[i] = c

\* value 0..31 of an alphabet character
AlphabetValue(c) == (CHOOSE i \in 1..Len(Alphabet) : Alphabet[i] = c) - 1

Pow2(n) == IF n = 0 THEN 1
           ELSE IF n = 1 THEN 2
           ELSE IF n = 2 THEN 4
           ELSE IF n = 3 THEN 8
           ELSE IF n = 4 THEN 16
           ELSE IF n = 5 THEN 32
           ELSE IF n = 6 THEN 64
           ELSE 128

\* bit i (1 = most significant) of an n-bit value
BitOf(v, i, n) == (v \div Pow2(n - i)) % 2

\* the 130 bits of a 16-byte value, left-padded with two zero bits
PaddedBits(bytes) ==
  [i \in 1..(5 * SuffixLen) |->
     IF i <= 2 THEN 0
     ELSE BitOf(bytes[((i - 3) \div 8) + 1], ((i - 3) % 8) + 1, 8)]

encode(bytes) ==
  LET bits == PaddedBits(bytes)
      group(k) == 16 * bits[5 * k - 4] + 8 * bits[5 * k - 3]
                  + 4 * bits[5 * k - 2] + 2 * bits[5 * k - 1] + bits[5 * k]
  IN  [k \in 1..SuffixLen |-> Alphabet[group(k) + 1]]

decode(text) ==
  IF Len(text) # SuffixLen
    THEN Throw("InvalidSuffixLength", <<Len(text)>>)
  ELSE IF \E i \in 1..Len(text) : ~InAlphabet(text[i])
    THEN Throw("InvalidSuffixAlphabet", <<>>)
  ELSE IF AlphabetValue(text[1]) > 7
    THEN Throw("InvalidSuffixRange", <<>>)
  ELSE
    LET bits == [i \in 1..(5 * SuffixLen) |->
                   BitOf(AlphabetValue(text[((i - 1) \div 5) + 1]),
                         ((i - 1) % 5) + 1, 5)]
        byte(m) == 128 * bits[8 * m - 5] + 64 * bits[8 * m - 4]
                   + 32 * bits[8 * m - 3] + 16 * bits[8 * m - 2]
                   + 8 * bits[8 * m - 1] + 4 * bits[8 * m]
                   + 2 * bits[8 * m + 1] + bits[8 * m + 2]
    IN  Return([m \in 1..UUIDLen |-> byte(m)])

----------------------------------------------------------------------------
(* Hex UUID text <-> 16 bytes (specification, section 6)                   *)

HexDigits ==
  Str(<< "0", "1", "2", "3", "4", "5", "6", "7", "8", "9", "a", "b", "c",
         "d", "e", "f" >>)

HexValue(c) == (CHOOSE i \in 1..Len(HexDigits) : HexDigits[i] = c) - 1

\* position in the 36-character text of the n-th hex digit (n = 1..32)
HexPos(n) == n + (IF n > 20 THEN 4
                  ELSE IF n > 16 THEN 3
                  ELSE IF n > 12 THEN 2
                  ELSE IF n > 8 THEN 1
                  ELSE 0)

parseUUID(uuid) ==
  [m \in 1..UUIDLen |->
     16 * HexValue(uuid[HexPos(2 * m - 1)]) + HexValue(uuid[HexPos(2 * m)])]

\* UUID.ofInner(bytes).toString()
formatUUID(bytes) ==
  LET digit(n) == IF n % 2 = 1
                    THEN HexDigits[(bytes[(n + 1) \div 2] \div 16) + 1]
                    ELSE HexDigits[(bytes[n \div 2] % 16) + 1]
  IN  [i \in 1..(2 * UUIDLen + 4) |->
         IF i \in {9, 14, 19, 24} THEN Ord("-")
         ELSE digit(CHOOSE n \in 1..(2 * UUIDLen) : HexPos(n) = i)]

----------------------------------------------------------------------------
(* Identifier (src/typeid.ts)                                              *)

\* mutant: the length limit is off by one (>= instead of >)
isValidPrefix_OffByOne(str) ==
  IF Len(str) >= MaxPrefixLen THEN FALSE
  ELSE \A i \in 1..Len(str) : str[i] > 96 /\ str[i] < 123

isValidPrefix(str) ==
  IF Len(str) > MaxPrefixLen THEN FALSE
  ELSE \A i \in 1..Len(str) : str[i] > 96 /\ str[i] < 123

\* mutant: the separator is written even when the prefix is empty
typeid_AlwaysSeparator(prefix, suffix, uuidBytes) ==
  IF ~isValidPrefix(prefix) THEN Throw("InvalidPrefix", <<>>)
  ELSE
    LET finalSuffix == IF suffix # <<>> THEN suffix ELSE encode(uuidBytes)
    IN  IF Len(finalSuffix) # SuffixLen
          THEN Throw("InvalidSuffixLength", <<Len(finalSuffix)>>)
        ELSE IF finalSuffix[1] > Ord("7")
          THEN Throw("InvalidSuffixRange", <<>>)
        ELSE IF ~decode(finalSuffix).ok
          THEN decode(finalSuffix)
        ELSE Return(prefix \o <<Underscore>> \o finalSuffix)

\* mutant: the first character is checked before the length
typeid_RangeBeforeLength(prefix, suffix, uuidBytes) ==
  IF ~isValidPrefix(prefix) THEN Throw("InvalidPrefix", <<>>)
  ELSE
    LET finalSuffix == IF suffix # <<>> THEN suffix ELSE encode(uuidBytes)
    IN  IF finalSuffix[1] > Ord("7")
          THEN Throw("InvalidSuffixRange", <<>>)
        ELSE IF Len(finalSuffix) # SuffixLen
          THEN Throw("InvalidSuffixLength", <<Len(finalSuffix)>>)
        ELSE IF ~decode(finalSuffix).ok
          THEN decode(finalSuffix)
        ELSE IF prefix = <<>>
          THEN Return(finalSuffix)
        ELSE Return(prefix \o <<Underscore>> \o finalSuffix)

\* typeid(prefix, suffix); uuidBytes is what uuidv7obj().bytes yields when
\* the suffix is missing or empty.  An omitted argument is the empty string.
typeid(prefix, suffix, uuidBytes) ==
  IF ~isValidPrefix(prefix) THEN Throw("InvalidPrefix", <<>>)
  ELSE
    LET finalSuffix == IF suffix # <<>> THEN suffix ELSE encode(uuidBytes)
    IN  IF Len(finalSuffix) # SuffixLen
          THEN Throw("InvalidSuffixLength", <<Len(finalSuffix)>>)
        ELSE IF finalSuffix[1] > Ord("7")
          THEN Throw("InvalidSuffixRange", <<>>)
        ELSE IF ~decode(finalSuffix).ok
          THEN decode(finalSuffix)
        ELSE IF prefix = <<>>
          THEN Return(finalSuffix)
        ELSE Return(prefix \o <<Underscore>> \o finalSuffix)

\* String.prototype.indexOf("_"): 0-based index of the first underscore, or -1
indexOfUnderscore(s) ==
  IF \E i \in 1..Len(s) : s[i] = Underscore
    THEN (CHOOSE i \in 1..Len(s) :
            s[i] = Underscore /\ \A j \in 1..(i - 1) : s[j] # Underscore) - 1
    ELSE -1

\* String.prototype.split("_"): the pieces between the underscores
RECURSIVE split(_)
split(s) ==
  LET idx == indexOfUnderscore(s)
  IN  IF idx = -1 THEN <<s>>
      ELSE <<SubSeq(s, 1, idx)>> \o split(SubSeq(s, idx + 2, Len(s)))

\* mutant: a text with several underscores is cut at the first one
fromString_SplitOnce(typeId, hasPrefix, prefix, uuidBytes) ==
  LET parts == split(typeId)
      idx == indexOfUnderscore(typeId)
  IN  IF Len(parts) = 1 THEN typeid(<<>>, parts[1], uuidBytes)
      ELSE
        IF parts[1] = <<>>
          THEN Throw("EmptyPrefixWithSeparator", typeId)
        ELSE IF (hasPrefix /\ prefix # <<>>) /\ parts[1] # prefix
          THEN Throw("PrefixMismatch", <<prefix, parts[1]>>)
        ELSE typeid(parts[1], SubSeq(typeId, idx + 2, Len(typeId)), uuidBytes)

\* fromString(typeId, prefix?): hasPrefix is FALSE when the second argument
\* is omitted (undefined); a supplied prefix is truthy when it is non-empty.
fromString(typeId, hasPrefix, prefix, uuidBytes) ==
  LET parts == split(typeId)
  IN  IF Len(parts) = 1 THEN typeid(<<>>, parts[1], uuidBytes)
      ELSE IF Len(parts) = 2 THEN
        IF parts[1] = <<>>
          THEN Throw("EmptyPrefixWithSeparator", typeId)
        ELSE IF (hasPrefix /\ prefix # <<>>) /\ parts[1] # prefix
          THEN Throw("PrefixMismatch", <<prefix, parts[1]>>)
        ELSE typeid(parts[1], parts[2], uuidBytes)
      ELSE Throw("InvalidFormat", typeId)

getType(typeId) ==
  LET underscoreIndex == indexOfUnderscore(typeId)
  IN  IF underscoreIndex = -1 THEN <<>>
      ELSE SubSeq(typeId, 1, underscoreIndex)

\* mutant: the suffix starts at the separator instead of after it
getSuffix_KeepsSeparator(typeId) ==
  LET underscoreIndex == indexOfUnderscore(typeId)
  IN  IF underscoreIndex = -1 THEN typeId
      ELSE SubSeq(typeId, underscoreIndex + 1, Len(typeId))

getSuffix(typeId) ==
  LET underscoreIndex == indexOfUnderscore(typeId)
  IN  IF underscoreIndex = -1 THEN typeId
      ELSE SubSeq(typeId, underscoreIndex + 2, Len(typeId))

parseTypeID(typeId) ==
  [prefix |-> getType(typeId), suffix |-> getSuffix(typeId)]

\* /^[a-z]{1,63}_[0-7][0-9a-v]{25}$/.test(value)
isTypeID(value) ==
  \E n \in 1..MaxPrefixLen :
    /\ Len(value) = n + 1 + SuffixLen
    /\ \A i \in 1..n : value[i] >= Ord("a") /\ value[i] <= Ord("z")
    /\ value[n + 1] = Underscore
    /\ value[n + 2] >= Ord("0") /\ value[n + 2] <= Ord("7")
    /\ \A i \in (n + 3)..(n + 1 + SuffixLen) :
         \/ value[i] >= Ord("0") /\ value[i] <= Ord("9")
         \/ value[i] >= Ord("a") /\ value[i] <= Ord("v")

\* mutant: the whole identifier is decoded, prefix included
toUUIDBytes_WholeString(typeId) == decode(typeId)

toUUIDBytes(typeId) == decode(getSuffix(typeId))

toUUID(typeId) ==
  LET uuidBytes == toUUIDBytes(typeId)
  IN  IF uuidBytes.ok THEN Return(formatUUID(uuidBytes.value)) ELSE uuidBytes

\* mutant: prefix and suffix are joined without the separator
fromUUIDBytes_NoSeparator(prefix, bytes) ==
  LET suffix == encode(bytes)
  IN  IF prefix # <<>> THEN Return(prefix \o suffix)
      ELSE Return(suffix)

fromUUIDBytes(prefix, bytes) ==
  LET suffix == encode(bytes)
  IN  IF prefix # <<>> THEN Return(prefix \o <<Underscore>> \o suffix)
      ELSE Return(suffix)

\* fromUUID(uuid, prefix?): an omitted prefix is passed as the empty string
\* (undefined and "" are both falsy)
fromUUID(uuid, prefix) ==
  LET suffix == encode(parseUUID(uuid))
  IN  IF prefix # <<>> THEN Return(prefix \o <<Underscore>> \o suffix)
      ELSE Return(suffix)

----------------------------------------------------------------------------
(* Inputs                                                                  *)

\* most pieces, separated by underscores, of a text handed to the parser
MaxParts == 3

\* a 26-character string: first, then 24 zeros, then last
Sfx(first, last) == <<Ord(first)>> \o Rep("0", SuffixLen - 2) \o <<Ord(last)>>

TestSuffix ==
  Str(<< "0", "0", "0", "4", "1", "0", "6", "1", "0", "5", "0", "r", "3",
         "g", "g", "2", "8", "a", "1", "c", "6", "0", "t", "3", "g", "f" >>)

PrefixSamples ==
  { <<>>, Str(<<"t", "e", "s", "t">>), Str(<<"u", "s", "e", "r">>),
    Str(<<"T", "E", "S", "T">>), Str(<<" ", " ">>), Str(<<"a", "1">>),
    Str(<<"a", "_", "b">>), <<97, 96>>, <<123>>, <<233>>,
    Rep("a", MaxPrefixLen), Rep("a", MaxPrefixLen + 1) }

SuffixSamples ==
  { <<>>, TestSuffix, Str(<<"a", "b", "c">>), Str(<<"8", "i">>),
    Rep("0", SuffixLen - 1), Rep("0", SuffixLen + 1),
    Rep("z", SuffixLen + 1) }
  \cup { Sfx(f, l) : f \in {"0", "7", "8", "z", "i", "-", "A"},
                     l \in {"0", "z", "i", "l", "o", "u", "v", "w", "A",
                            " ", "_"} }

ByteSamples ==
  { [m \in 1..UUIDLen |-> 0], [m \in 1..UUIDLen |-> 255],
    [m \in 1..UUIDLen |-> 17 * (m - 1)],
    << 1, 136, 156, 137, 223, 107, 127, 28,
       163, 136, 145, 57, 110, 195, 20, 188 >> }

UUIDSamples ==
  { Str(<< "0", "1", "8", "8", "9", "c", "8", "9", "-", "d", "f", "6", "b",
           "-", "7", "f", "1", "c", "-", "a", "3", "8", "8", "-", "9", "1",
           "3", "9", "6", "e", "c", "3", "1", "4", "b", "c" >>),
    Rep("0", 8) \o Rep("-", 1) \o Rep("0", 4) \o Rep("-", 1) \o Rep("0", 4)
      \o Rep("-", 1) \o Rep("0", 4) \o Rep("-", 1) \o Rep("0", 12),
    Rep("f", 8) \o Rep("-", 1) \o Rep("f", 4) \o Rep("-", 1) \o Rep("f", 4)
      \o Rep("-", 1) \o Rep("f", 4) \o Rep("-", 1) \o Rep("f", 12) }

\* values the UUIDv7 generator may hand out
GeneratedSamples ==
  { << 1, 136, 156, 137, 223, 107, 127, 28,
       163, 136, 145, 57, 110, 195, 20, 188 >>,
    [m \in 1..UUIDLen |-> IF m <= 6 THEN 255 ELSE 119] }

\* the pieces texts are assembled from
PartSamples ==
  { <<>>, Str(<<"t", "e", "s", "t">>), Str(<<"T", "E", "S", "T">>),
    Str(<<"a", "b", "c">>), Rep("a", MaxPrefixLen),
    Rep("a", MaxPrefixLen + 1), TestSuffix, Sfx("7", "z"), Sfx("0", "i"),
    Sfx("8", "z") }

RECURSIVE Join(_)
Join(parts) ==
  IF Len(parts) = 1 THEN parts[1]
  ELSE parts[1] \o <<Underscore>> \o Join(Tail(parts))

TextSamples ==
  { Join(parts) : parts \in UNION { [1..n -> PartSamples] : n \in 1..MaxParts } }

\* the optional second argument of fromString: omitted, or a string
ExpectedSamples ==
  { [has |-> FALSE, prefix |-> <<>>], [has |-> TRUE, prefix |-> <<>>],
    [has |-> TRUE, prefix |-> Str(<<"t", "e", "s", "t">>)],
    [has |-> TRUE, prefix |-> Str(<<"u", "s", "e", "r">>)] }

TypeidCalls ==
  { [op |-> "typeid", prefix |-> p, suffix |-> s, uuidBytes |-> g] :
      p \in PrefixSamples, s \in SuffixSamples, g \in GeneratedSamples }

FromStringCalls ==
  { [op |-> "fromString", typeId |-> t, hasPrefix |-> e.has,
     prefix |-> e.prefix, uuidBytes |-> g] :
      t \in TextSamples, e \in ExpectedSamples, g \in GeneratedSamples }

IsTypeIDCalls == { [op |-> "isTypeID", value |-> t] : t \in TextSamples }

FromUUIDBytesCalls ==
  { [op |-> "fromUUIDBytes", prefix |-> p, bytes |-> b] :
      p \in PrefixSamples, b \in ByteSamples }

FromUUIDCalls ==
  { [op |-> "fromUUID", uuid |-> u, prefix |-> p] :
      u \in UUIDSamples, p \in PrefixSamples }

Constructors == {"typeid", "fromString", "fromUUIDBytes", "fromUUID"}

----------------------------------------------------------------------------
(* State machine: one call of an exported function, then one projection    *)
(* of the identifier it returned                                           *)

Pending == [ok |-> FALSE, kind |-> "pending", info |-> <<>>]

Init ==
  /\ call \in TypeidCalls \cup FromStringCalls \cup IsTypeIDCalls
                \cup FromUUIDBytesCalls \cup FromUUIDCalls
  /\ pc = "start"
  /\ out = Pending
  /\ sub = "none"
  /\ subOut = Pending

Finish(result) ==
  /\ pc = "start"
  /\ out' = result
  /\ pc' = "done"
  /\ UNCHANGED <<call, sub, subOut>>

Typeid ==
  /\ call.op = "typeid"
  /\ Finish(typeid(call.prefix, call.suffix, call.uuidBytes))

FromString ==
  /\ call.op = "fromString"
  /\ Finish(fromString(call.typeId, call.hasPrefix, call.prefix,
                       call.uuidBytes))

IsTypeID ==
  /\ call.op = "isTypeID"
  /\ Finish(Return(isTypeID(call.value)))

FromUUIDBytes ==
  /\ call.op = "fromUUIDBytes"
  /\ Finish(fromUUIDBytes(call.prefix, call.bytes))

FromUUID ==
  /\ call.op = "fromUUID"
  /\ Finish(fromUUID(call.uuid, call.prefix))

\* a projection applied to the identifier a constructor returned
Project(name, result) ==
  /\ pc = "done"
  /\ call.op \in Constructors
  /\ out.ok
  /\ sub = "none"
  /\ sub' = name
  /\ subOut' = result
  /\ UNCHANGED <<call, pc, out>>

ParseTypeID == Project("parseTypeID", Return(parseTypeID(out.value)))

GetType == Project("getType", Return(getType(out.value)))

GetSuffix == Project("getSuffix", Return(getSuffix(out.value)))

ToUUIDBytes == Project("toUUIDBytes", toUUIDBytes(out.value))

ToUUID == Project("toUUID", toUUID(out.value))

Next ==
  \/ Typeid
  \/ FromString
  \/ IsTypeID
  \/ FromUUIDBytes
  \/ FromUUID
  \/ ParseTypeID
  \/ GetType
  \/ GetSuffix
  \/ ToUUIDBytes
  \/ ToUUID

Spec == Init /\ [][Next]_vars

----------------------------------------------------------------------------
(* The grammar of the specification (sections 3 and 6), stated over code   *)
(* units independently of the code above                                   *)

LowerAlpha(c) == c \in Ord("a")..Ord("z")

\* ^[a-z]{0,63}$
PrefixGrammar(p) == Len(p) <= MaxPrefixLen /\ \A i \in 1..Len(p) : LowerAlpha(p[i])

\* a character of 0123456789abcdefghjkmnpqrstvwxyz
Base32Char(c) ==
  \/ c \in Ord("0")..Ord("9")
  \/ LowerAlpha(c) /\ c \notin {Ord("i"), Ord("l"), Ord("o"), Ord("u")}

\* ^[0-7][0-9a-hjkmnp-tv-z]{25}$
SuffixGrammar(x) ==
  /\ Len(x) = SuffixLen
  /\ x[1] \in Ord("0")..Ord("7")
  /\ \A i \in 2..Len(x) : Base32Char(x[i])

\* ^[a-z]{1,63}_[0-7][0-9a-hjkmnp-tv-z]{25}$
PrefixedGrammar(t) ==
  \E n \in 1..MaxPrefixLen :
    /\ Len(t) = n + 1 + SuffixLen
    /\ PrefixGrammar(SubSeq(t, 1, n))
    /\ t[n + 1] = Underscore
    /\ SuffixGrammar(SubSeq(t, n + 2, Len(t)))

\* a canonical identifier: a suffix alone, or prefix, underscore, suffix
Canonical(t) == SuffixGrammar(t) \/ PrefixedGrammar(t)

Underscores(t) == Cardinality({i \in 1..Len(t) : t[i] = Underscore})

Returned(op) == call.op = op /\ pc = "done" /\ out.ok
Threw(op, kind) == call.op = op /\ pc = "done" /\ ~out.ok /\ out.kind = kind

----------------------------------------------------------------------------
(* Claims                                                                  *)

\* C1: fromString returns without error only for a canonical identifier
\* string; every other text, the empty string and "prefix_" included,
\* raises an error.
C1_FromStringOnlyCanonical ==
  Returned("fromString") => Canonical(call.typeId)

\* C2: isTypeID never raises and answers exactly whether the value matches
\* ^[a-z]{1,63}_[0-7][0-9a-hjkmnp-tv-z]{25}$.
C2_IsTypeIDIsGrammar ==
  (call.op = "isTypeID" /\ pc = "done")
    => (out.ok /\ out.value = PrefixedGrammar(call.value))

\* C3: when fromString is given a (non-empty) expected prefix and returns,
\* the prefix of the returned identifier is the expected prefix.
C3_ReturnedPrefixIsExpected ==
  (Returned("fromString") /\ call.hasPrefix /\ call.prefix # <<>>)
    => getType(out.value) = call.prefix

\* The invariants of an identifier string: prefix grammar, suffix grammar,
\* canonical composition.
IdentifierInvariant(id) ==
  /\ PrefixGrammar(getType(id))
  /\ SuffixGrammar(getSuffix(id))
  /\ id = (IF getType(id) = <<>> THEN getSuffix(id)
           ELSE getType(id) \o <<Underscore>> \o getSuffix(id))

\* C4 (as claimed): every identifier returned by typeid, fromString,
\* fromUUIDBytes or fromUUID satisfies the identifier invariants.
C4_EveryConstructorInvariant ==
  (pc = "done" /\ out.ok /\ call.op \in Constructors)
    => IdentifierInvariant(out.value)

\* C4 (amended): every identifier returned by typeid or fromString satisfies
\* the identifier invariants, and so does every identifier returned by
\* fromUUIDBytes or fromUUID when the prefix handed to them matches
\* ^[a-z]{0,63}$; these two do not validate the prefix.
C4_ValidatedConstructorInvariant ==
  (/\ pc = "done" /\ out.ok
   /\ \/ call.op \in {"typeid", "fromString"}
      \/ call.op \in {"fromUUIDBytes", "fromUUID"} /\ PrefixGrammar(call.prefix))
    => IdentifierInvariant(out.value)

C4_Witness ==
  /\ Returned("fromUUIDBytes")
  /\ call.prefix = Str(<<"t", "e", "s", "t">>)
  /\ getType(out.value) = call.prefix

\* C5: typeid(p, s) fails with InvalidPrefix exactly when p violates
\* ^[a-z]{0,63}$, whatever the suffix is.
C5_InvalidPrefixIffGrammar ==
  (call.op = "typeid" /\ pc = "done")
    => ((~out.ok /\ out.kind = "InvalidPrefix") <=> ~PrefixGrammar(call.prefix))

C5_Witness ==
  /\ Threw("typeid", "InvalidPrefix")
  /\ Len(call.prefix) = MaxPrefixLen + 1
  /\ SuffixGrammar(call.suffix)

\* C6: fromString(s), without an expected prefix, succeeds on every canonical
\* identifier string s and returns s unchanged.
C6_CanonicalRoundTrip ==
  (call.op = "fromString" /\ pc = "done" /\ ~call.hasPrefix
   /\ Canonical(call.typeId))
    => (out.ok /\ out.value = call.typeId)

C6_Witness ==
  /\ Returned("fromString")
  /\ ~call.hasPrefix
  /\ PrefixedGrammar(call.typeId)

\* C7: for a valid prefix p and a valid suffix s, typeid(p, s) returns an
\* identifier that parseTypeID decomposes into exactly p and s, and getType
\* and getSuffix return p and s.
C7_ComposeDecompose ==
  (call.op = "typeid" /\ pc = "done"
   /\ PrefixGrammar(call.prefix) /\ SuffixGrammar(call.suffix))
    => /\ out.ok
       /\ sub = "parseTypeID"
            => subOut = Return([prefix |-> call.prefix, suffix |-> call.suffix])
       /\ sub = "getType" => subOut = Return(call.prefix)
       /\ sub = "getSuffix" => subOut = Return(call.suffix)

C7_Witness ==
  /\ Returned("typeid")
  /\ sub = "parseTypeID"
  /\ call.prefix # <<>>
  /\ subOut.value.suffix = call.suffix

\* C8: for 16 bytes b and a prefix p matching ^[a-z]{0,63}$,
\* toUUIDBytes(fromUUIDBytes(p, b)) is b, and toUUID(fromUUID(u, p)) is u.
C8_BytesRoundTrip ==
  /\ (call.op = "fromUUIDBytes" /\ pc = "done" /\ PrefixGrammar(call.prefix))
       => /\ out.ok
          /\ sub = "toUUIDBytes" => subOut = Return(call.bytes)
  /\ (call.op = "fromUUID" /\ pc = "done" /\ PrefixGrammar(call.prefix))
       => /\ out.ok
          /\ sub = "toUUID" => subOut = Return(call.uuid)

C8_Witness ==
  /\ Returned("fromUUIDBytes")
  /\ call.prefix # <<>>
  /\ PrefixGrammar(call.prefix)
  /\ sub = "toUUIDBytes"
  /\ subOut.ok
  /\ \E m \in 1..UUIDLen : call.bytes[m] # 0

\* C9: fromString rejects every text with two or more underscores with the
\* InvalidFormat error naming the text, with or without an expected prefix.
C9_ManyUnderscoresInvalidFormat ==
  (call.op = "fromString" /\ pc = "done" /\ Underscores(call.typeId) >= 2)
    => out = Throw("InvalidFormat", call.typeId)

C9_Witness ==
  /\ Threw("fromString", "InvalidFormat")
  /\ Underscores(call.typeId) = 2
  /\ call.hasPrefix
  /\ call.prefix # <<>>

\* the outcome the rule order prefix, length, range, alphabet prescribes
FirstViolation(p, s) ==
  IF ~PrefixGrammar(p) THEN "InvalidPrefix"
  ELSE IF Len(s) # SuffixLen THEN "InvalidSuffixLength"
  ELSE IF s[1] > Ord("7") THEN "InvalidSuffixRange"
  ELSE IF \E i \in 1..Len(s) : ~Base32Char(s[i]) THEN "InvalidSuffixAlphabet"
  ELSE "none"

\* C10: typeid(p, s) with a non-empty suffix reports the first violated rule
\* in the order prefix, length (naming the actual length), range, alphabet,
\* and returns an identifier only when no rule is violated.
C10_FirstViolatedRule ==
  (call.op = "typeid" /\ pc = "done" /\ call.suffix # <<>>)
    => LET rule == FirstViolation(call.prefix, call.suffix)
       IN  /\ out.ok <=> rule = "none"
           /\ ~out.ok => out.kind = rule
           /\ rule = "InvalidSuffixLength" => out.info = <<Len(call.suffix)>>

C10_Witness ==
  /\ Threw("typeid", "InvalidSuffixLength")
  /\ call.suffix = Str(<<"8", "i">>)
  /\ PrefixGrammar(call.prefix)

====
